---- MODULE Spec2Model ----
(***************************************************************************)
(* HeuristicGenerator (program_synthesis/heuristic_generator.py): the      *)
(* synthesizer -> pruner -> verifier loop of the weak-supervision          *)
(* heuristic generator.                                                    *)
(*                                                                         *)
(* Numbers.  Probabilities, the class prior b and the abstention           *)
(* thresholds beta live on the grid k/Scale, k \in 0..Scale, and are held  *)
(* as the integer k; Half is 0.5.  Scores that the code computes by a      *)
(* division are held as exact fractions [n, d]; a fraction with d = 0 is   *)
(* the NaN that numpy returns for 0/0.  Python's 0-based positions are     *)
(* 1-based here.  None is the record [none |-> TRUE].                      *)
(***************************************************************************)
EXTENDS Integers, Sequences, FiniteSets, TLC

\* ---------------------------------------------------------------- bounds
Half == 1
NVal == 1
NTrain == 1
NFeat == 2
MaxCard == 1
MaxHf == 2
MaxKeep == 3

Scale == 2 * Half
Probs == 0 .. Scale
BetaGrid == 0 .. Half
Labels == {-1, 1}
Points == 1 .. NVal

None == [none |-> TRUE]
NaN == [n |-> 0, d |-> 0]

VARIABLES
  b, train_primitive_matrix, val_primitive_matrix, val_ground, train_ground,
  vf, syn, hf, feat_combos,
  X_val, L_val, X_train, L_train, beta_opt,
  feedback_idx,
  val_marginals, train_marginals,
  val_accuracy, train_accuracy, val_coverage, train_coverage,
  call, ret

config == <<b, train_primitive_matrix, val_primitive_matrix, val_ground, train_ground>>
votes == <<X_val, L_val, X_train, L_train, beta_opt>>
evaluation == <<val_marginals, train_marginals,
                val_accuracy, train_accuracy, val_coverage, train_coverage>>
vars == <<config, vf, syn, hf, feat_combos, votes, feedback_idx, evaluation, call, ret>>

\* ------------------------------------------------------------ arithmetic
Min(x, y) == IF x <= y THEN x ELSE y
Max(x, y) == IF x >= y THEN x ELSE y
Abs(x) == IF x < 0 THEN -x ELSE x
Sign(x) == IF x < 0 THEN -1 ELSE IF x > 0 THEN 1 ELSE 0

RECURSIVE SumSeq(_)
SumSeq(s) == IF s = <<>> THEN 0 ELSE Head(s) + SumSeq(Tail(s))

\* line 81 without the [::-1]
Reverse_omitted(s) == s

Reverse(s) == [i \in 1 .. Len(s) |-> s[Len(s) + 1 - i]]

\* numpy's x / y on numbers: 0/0 is nan (a warning, no exception)
Div(x, y) == IF y = 0 THEN NaN ELSE [n |-> x, d |-> y]
IsNaN(x) == x.d = 0
\* 1 - x and 0.5*x + 0.5*y; nan propagates
OneMinus(x) == IF IsNaN(x) THEN NaN ELSE [n |-> x.d - x.n, d |-> x.d]
HalfSum(x, y) ==
  IF IsNaN(x) \/ IsNaN(y) THEN NaN
  ELSE [n |-> x.n * y.d + y.n * x.d, d |-> 2 * x.d * y.d]
FracEq(x, y) == ~IsNaN(x) /\ ~IsNaN(y) /\ x.n * y.d = y.n * x.d
FracLt(x, y) == ~IsNaN(x) /\ ~IsNaN(y) /\ x.n * y.d < y.n * x.d
FracLeq(x, y) == FracLt(x, y) \/ FracEq(x, y)
InUnit(x) == ~IsNaN(x) /\ 0 <= x.n /\ x.n <= x.d

\* --------------------------------------------------- external collaborators
(* A fitted heuristic is opaque: all the generator sees of it is the       *)
(* positive-class probability it gives each data point, and the threshold  *)
(* find_optimal_beta computes for it over the full validation set, which   *)
(* is a fixed function of the heuristic and of data that never changes.    *)
Classifiers == [proba : [Points -> Probs], beta : BetaGrid]

\* hf.predict_proba(X[:,i])[:,1]: one probability per row of X
predict_proba(h, X) == [r \in 1 .. Len(X.rows) |-> h.proba[X.rows[r]]]

\* M[:, cols]: the rows of M, restricted to the given feature combinations
Restrict(M, cols) == [rows |-> M, cols |-> cols]

\* Synthesizer.find_optimal_beta(heuristics, X, ground): one beta per heuristic
find_optimal_beta(heuristics, X, ground) ==
  [i \in 1 .. Len(heuristics) |-> heuristics[i].beta]

\* the feature combinations generate_heuristics enumerates: every strictly
\* increasing tuple of at most max_cardinality features, by size, then in order
IsCombo(c) == \A i \in 1 .. Len(c) - 1 : c[i] < c[i + 1]
ComboSet(max_cardinality) ==
  UNION {{c \in [1 .. k -> 1 .. NFeat] : IsCombo(c)} : k \in 1 .. max_cardinality}
ComboBefore(c, e) ==
  \/ Len(c) < Len(e)
  \/ /\ Len(c) = Len(e)
     /\ \E i \in 1 .. Len(c) : c[i] < e[i] /\ \A j \in 1 .. i - 1 : c[j] = e[j]
Combos(max_cardinality) ==
  LET S == ComboSet(max_cardinality)
  IN  CHOOSE s \in [1 .. Cardinality(S) -> S] :
        \A i, j \in 1 .. Cardinality(S) : i < j => ComboBefore(s[i], s[j])

\* ------------------------------------------------------- apply_heuristics
\* lines 46 and 47 exchanged: the -1 assignment comes last
labels_cutoff_negative_last(p, prior, beta) ==
  LET l1 == IF p >= prior + beta THEN 1 ELSE 0
  IN  IF p <= prior - beta THEN -1 ELSE l1

\* lines 46 and 47 with strict comparisons
labels_cutoff_strict(p, prior, beta) ==
  LET l1 == IF p < prior - beta THEN -1 ELSE 0
  IN  IF p > prior + beta THEN 1 ELSE l1

\* lines 45-47: the two assignments, in the code's order
labels_cutoff(p, prior, beta) ==
  LET l1 == IF p <= prior - beta THEN -1 ELSE 0
  IN  IF p >= prior + beta THEN 1 ELSE l1

\* line 42 with one column too few: the last heuristic gets no column
apply_heuristics_one_short(heuristics, X, beta, prior) ==
  IF \E i \in 1 .. Len(heuristics) : i > Len(X.cols) \/ i > Len(beta)
  THEN [error |-> "IndexError"]
  ELSE [cols |-> [i \in 1 .. Len(heuristics) - 1 |->
                   [r \in 1 .. Len(X.rows) |->
                      labels_cutoff(predict_proba(heuristics[i], X)[r], prior, beta[i])]]]

\* lines 42-49: a vote matrix as the sequence of its columns, or IndexError
apply_heuristics(heuristics, X, beta, prior) ==
  IF \E i \in 1 .. Len(heuristics) : i > Len(X.cols) \/ i > Len(beta)
  THEN [error |-> "IndexError"]
  ELSE [cols |-> [i \in 1 .. Len(heuristics) |->
                   [r \in 1 .. Len(X.rows) |->
                      labels_cutoff(predict_proba(heuristics[i], X)[r], prior, beta[i])]]]

\* ------------------------------------------------------- prune_heuristics
\* sklearn f1_score(ground, column, average='micro'): the share of rows whose
\* vote equals the ground-truth label
f1_score(ground, col) ==
  Div(Cardinality({r \in 1 .. Len(col) : col[r] = ground[r]}), Len(col))

\* np.nan_to_num
nan_to_num(x) == IF IsNaN(x) THEN [n |-> 0, d |-> 1] ELSE x

\* line 74 without np.abs: votes of opposite sign cancel
val_num_labeled_signed(v) ==
  [r \in 1 .. NVal |-> SumSeq([i \in 1 .. Len(v.L_val) |-> v.L_val[i][r]])]

\* line 74: np.sum(np.abs(self.vf.L_val.T), axis=0), one total per row
val_num_labeled_of(v) ==
  [r \in 1 .. NVal |-> SumSeq([i \in 1 .. Len(v.L_val) |-> Abs(v.L_val[i][r])])]

\* line 61 without the "1 -": the overlap itself
calculate_jaccard_similarity(num_labeled_total, num_labeled_L) ==
  [i \in 1 .. Len(num_labeled_L) |->
     Div(SumSeq([r \in 1 .. NVal |-> Min(num_labeled_L[i][r], num_labeled_total[r])]),
         SumSeq([r \in 1 .. NVal |-> Max(num_labeled_L[i][r], num_labeled_total[r])]))]

\* lines 58-62
calculate_jaccard_distance(num_labeled_total, num_labeled_L) ==
  [i \in 1 .. Len(num_labeled_L) |->
     OneMinus(Div(
       SumSeq([r \in 1 .. NVal |-> Min(num_labeled_L[i][r], num_labeled_total[r])]),
       SumSeq([r \in 1 .. NVal |-> Max(num_labeled_L[i][r], num_labeled_total[r])])))]

\* the scores of lines 65-80 for a candidate pool, given the aggregator v
prune_scores(heuristics, combos, v, vmat, ground, prior) ==
  LET X == Restrict(vmat, combos)
      bo == find_optimal_beta(heuristics, X, ground)
      L == apply_heuristics(heuristics, X, bo, prior).cols
      acc == [i \in 1 .. Len(L) |-> nan_to_num(f1_score(ground, L[i]))]
      absL == [i \in 1 .. Len(L) |-> [r \in 1 .. NVal |-> Abs(L[i][r])]]
      jac == IF v # None
             THEN calculate_jaccard_distance(val_num_labeled_of(v), absL)
             ELSE [i \in 1 .. Len(L) |-> [n |-> 1, d |-> 1]]
  IN  [L |-> L, acc_cov_scores |-> acc, jaccard_scores |-> jac,
       combined_scores |-> [i \in 1 .. Len(L) |-> HalfSum(acc[i], jac[i])]]

\* np.argsort orders ascending with nan last; its default sort is not stable,
\* so among equal scores any order may come out
ScoreLeq(x, y) == IsNaN(y) \/ FracLeq(x, y)
argsort(scores) ==
  {p \in [1 .. Len(scores) -> 1 .. Len(scores)] :
     /\ \A i, j \in 1 .. Len(scores) : i # j => p[i] # p[j]
     /\ \A i, j \in 1 .. Len(scores) : i < j => ScoreLeq(scores[p[i]], scores[p[j]])}

\* s[0:keep+1]
SliceTo_one_more(s, keep) == SubSeq(s, 1, Min(keep + 1, Len(s)))

\* s[0:keep]
SliceTo(s, keep) ==
  IF keep >= 0 THEN SubSeq(s, 1, Min(keep, Len(s)))
  ELSE SubSeq(s, 1, Max(Len(s) + keep, 0))

\* line 81: every sort_idx the call may return
prune_heuristics(heuristics, combos, keep, v, vmat, ground, prior) ==
  {SliceTo(Reverse(p), keep) :
     p \in argsort(prune_scores(heuristics, combos, v, vmat, ground, prior).combined_scores)}

\* --------------------------------------------------------------- evaluate
\* lines 163-167; ground None (the empty tuple here) equals no label
calculate_accuracy(marginals, prior, ground) ==
  LET total == Cardinality({r \in 1 .. Len(marginals) : marginals[r] # Half})
      labels == [r \in 1 .. Len(marginals) |-> Sign(2 * (marginals[r] - Half))]
  IN  Div(Cardinality({r \in 1 .. Len(marginals) :
                         r \in DOMAIN ground /\ labels[r] = ground[r]}), total)

\* lines 169-174
calculate_coverage(marginals, prior, ground) ==
  LET total == Cardinality({r \in 1 .. Len(marginals) : marginals[r] # Half})
  IN  Div(total, Len(marginals))

\* --------------------------------------------------------------- feedback
\* lines 136-138 and Verifier.find_vague_points(b, gamma): the rows whose
\* marginal is within gamma = 0.5 - 1/m^1.5 of the prior.  With q the distance
\* in grid units, q/Scale <= 1/2 - m^(-3/2) iff q < Half and
\* Scale^2 <= (Half - q)^2 * m^3.
WithinGamma(q, m) == q < Half /\ Scale * Scale <= (Half - q) * (Half - q) * m * m * m
find_vague_points(v, prior, m) ==
  {r \in 1 .. NVal : WithinGamma(Abs(v.val_marginals[r] - prior), m)}

\* --------------------------------------------------------------- verifier
\* Verifier.train_gen_model / assign_marginals: one marginal per row.  A row
\* on which every heuristic abstains gets 0.5, a row whose votes all agree
\* gets a marginal on their side, a row with votes on both sides gets any.
Consensus(L, r) ==
  LET pos == \E i \in 1 .. Len(L) : L[i][r] = 1
      neg == \E i \in 1 .. Len(L) : L[i][r] = -1
  IN  IF pos /\ neg THEN Probs
      ELSE IF pos THEN Half + 1 .. Scale
      ELSE IF neg THEN 0 .. Half - 1
      ELSE {Half}
assign_marginals(L, rows) ==
  {m \in [1 .. rows -> Probs] : \A r \in 1 .. rows : m[r] \in Consensus(L, r)}

\* ------------------------------------------------------------------ state
\* __init__, lines 22-26: the constructor's arguments.  The validation rows are
\* the data points themselves; each train row carries the features of one
\* of them.  train_ground defaults to None, the empty tuple here.
ConfigInit(priors) ==
  /\ b \in priors
  /\ val_primitive_matrix = [r \in 1 .. NVal |-> r]
  /\ train_primitive_matrix \in [1 .. NTrain -> Points]
  /\ val_ground \in [1 .. NVal -> Labels]
  /\ train_ground \in {<<>>} \cup [1 .. NTrain -> Labels]

\* __init__, lines 28-31; the other attributes do not exist yet
Fresh ==
  /\ vf = None
  /\ syn = None
  /\ hf = <<>>
  /\ feat_combos = <<>>
  /\ X_val = None /\ L_val = None /\ X_train = None /\ L_train = None
  /\ beta_opt = None

NoOutputs ==
  /\ feedback_idx = None
  /\ val_marginals = None /\ train_marginals = None
  /\ val_accuracy = None /\ train_accuracy = None
  /\ val_coverage = None /\ train_coverage = None

Init ==
  /\ ConfigInit({Half})
  /\ Fresh
  /\ NoOutputs
  /\ call = None
  /\ ret = None

\* the idx arguments a caller passes: None, or the rows find_feedback left
IdxChoices ==
  {None} \cup (IF feedback_idx # None /\ feedback_idx.rows # {}
               THEN {feedback_idx} ELSE {})

\* Synthesizer.generate_heuristics(model, max_cardinality): one fitted
\* heuristic per feature combination
generate_heuristics(model, max_cardinality) ==
  LET combos == Combos(max_cardinality)
  IN  {[hf |-> pool, feat_combos |-> combos] : pool \in [1 .. Len(combos) -> Classifiers]}

\* lines 108-110 assigning the survivors instead of appending them
Appended_replacing(list, from, sort_idx) ==
  [i \in 1 .. Len(sort_idx) |-> from[sort_idx[i]]]

\* lines 108-110
Appended(list, from, sort_idx) ==
  list \o [i \in 1 .. Len(sort_idx) |-> from[sort_idx[i]]]

\* run_synthesizer, lines 94-119.  The first two conjuncts cap the cumulative
\* list: rounds run while it is below MaxHf and may not grow it past MaxHf (at
\* most Min(keep, pool size) survivors are appended).
RunSynthesizer ==
  \E max_cardinality \in 1 .. MaxCard, idx \in IdxChoices, keep \in 0 .. MaxKeep,
     model \in {"lr"} :
    /\ Len(hf) < MaxHf
    /\ Len(hf) + Min(keep, Len(Combos(max_cardinality))) <= MaxHf
    /\ \E gen \in generate_heuristics(model, max_cardinality) :
         \E sort_idx \in prune_heuristics(gen.hf, gen.feat_combos, keep, vf,
                                          val_primitive_matrix, val_ground, b) :
           LET newhf == Appended(hf, gen.hf, sort_idx)
               newfc == Appended(feat_combos, gen.feat_combos, sort_idx)
               Xv == Restrict(val_primitive_matrix, newfc)
               Xt == Restrict(train_primitive_matrix, newfc)
               bo == find_optimal_beta(newhf, Xv, val_ground)
           IN  /\ syn' = [rows |-> IF idx = None THEN 1 .. NVal ELSE idx.rows, b |-> b]
               /\ hf' = newhf
               /\ feat_combos' = newfc
               /\ X_val' = Xv
               /\ beta_opt' = [beta |-> bo]
               /\ L_val' = apply_heuristics(newhf, Xv, bo, b)
               /\ X_train' = Xt
               /\ L_train' = apply_heuristics(newhf, Xt, bo, b)
               /\ UNCHANGED <<config, vf, feedback_idx, evaluation, call, ret>>

\* Verifier(L_train, L_val, val_ground) after train_gen_model and
\* assign_marginals: every aggregator run_verifier may leave
Verifier(Lt, Lv, ground) ==
  {[L_train |-> Lt, L_val |-> Lv, val_ground |-> ground,
    val_marginals |-> vm, train_marginals |-> tm] :
     vm \in assign_marginals(Lv, NVal), tm \in assign_marginals(Lt, NTrain)}

\* run_verifier, lines 126-128; before the first round L_train is no attribute
RunVerifier ==
  /\ L_val # None
  /\ vf' \in Verifier(L_train.cols, L_val.cols, val_ground)
  /\ UNCHANGED <<config, syn, hf, feat_combos, votes, feedback_idx, evaluation, call, ret>>

\* find_feedback, lines 149-153; 1/(0**1.5) raises when nothing is kept yet
FindFeedback ==
  /\ vf # None
  /\ Len(hf) >= 1
  /\ feedback_idx' = [rows |-> find_vague_points(vf, b, Len(hf))]
  /\ UNCHANGED <<config, vf, syn, hf, feat_combos, votes, evaluation, call, ret>>

\* evaluate, lines 160-181
Evaluate ==
  /\ vf # None
  /\ val_marginals' = [m |-> vf.val_marginals]
  /\ train_marginals' = [m |-> vf.train_marginals]
  /\ val_accuracy' = calculate_accuracy(vf.val_marginals, b, val_ground)
  /\ train_accuracy' = calculate_accuracy(vf.train_marginals, b, train_ground)
  /\ val_coverage' = calculate_coverage(vf.val_marginals, b, val_ground)
  /\ train_coverage' = calculate_coverage(vf.train_marginals, b, train_ground)
  /\ UNCHANGED <<config, vf, syn, hf, feat_combos, votes, feedback_idx, call, ret>>

Next == RunSynthesizer \/ RunVerifier \/ FindFeedback \/ Evaluate

Spec == Init /\ [][Next]_vars

\* ------------------------------------------- apply_heuristics called directly
\* thresholds a caller may pass: the valid ones and one past either end
BetaInputs == -1 .. Half + 1
SeqsUpTo(S, n) == UNION {[1 .. k -> S] : k \in 0 .. n}

InitApply ==
  /\ ConfigInit(Probs)
  /\ Fresh
  /\ NoOutputs
  /\ call = None
  /\ ret = None

\* one direct call, its arguments and its result kept in call and ret
ApplyCall ==
  /\ call = None
  /\ \E heuristics \in SeqsUpTo(Classifiers, NFeat) \ {<<>>},
       M \in {val_primitive_matrix, train_primitive_matrix},
       ncols \in 0 .. NFeat,
       beta \in SeqsUpTo(BetaInputs, NFeat) :
      LET X == Restrict(M, SubSeq(Combos(1), 1, ncols))
      IN  /\ call' = [op |-> "apply_heuristics", heuristics |-> heuristics,
                      X |-> X, beta_opt |-> beta]
          /\ ret' = apply_heuristics(heuristics, X, beta, b)
          /\ UNCHANGED <<config, vf, syn, hf, feat_combos, votes, feedback_idx, evaluation>>

NextApply == ApplyCall

SpecApply == InitApply /\ [][NextApply]_vars

\* ------------------------------------------- prune_heuristics called directly
\* a generator after some rounds, with or without an aggregator over them
InitPrune ==
  /\ ConfigInit({Half})
  /\ \E kept \in SeqsUpTo(Classifiers, MaxHf) :
       LET fc == [i \in 1 .. Len(kept) |-> Combos(1)[1]]
           Xv == Restrict(val_primitive_matrix, fc)
           Xt == Restrict(train_primitive_matrix, fc)
           bo == find_optimal_beta(kept, Xv, val_ground)
       IN  /\ hf = kept
           /\ feat_combos = fc
           /\ syn = [rows |-> 1 .. NVal, b |-> b]
           /\ X_val = Xv
           /\ beta_opt = [beta |-> bo]
           /\ L_val = apply_heuristics(kept, Xv, bo, b)
           /\ X_train = Xt
           /\ L_train = apply_heuristics(kept, Xt, bo, b)
  /\ vf \in {None} \cup Verifier(L_train.cols, L_val.cols, val_ground)
  /\ NoOutputs
  /\ call = None
  /\ ret = None

PruneCall ==
  /\ call = None
  /\ \E keep \in 0 .. MaxKeep, gen \in generate_heuristics("lr", 1) :
      \E sort_idx \in prune_heuristics(gen.hf, gen.feat_combos, keep, vf,
                                       val_primitive_matrix, val_ground, b) :
        /\ call' = [op |-> "prune_heuristics", heuristics |-> gen.hf,
                    feat_combos |-> gen.feat_combos, keep |-> keep]
        /\ ret' = [sort_idx |-> sort_idx]
        /\ UNCHANGED <<config, vf, syn, hf, feat_combos, votes, feedback_idx, evaluation>>

NextPrune == PruneCall

SpecPrune == InitPrune /\ [][NextPrune]_vars

\* ================================================================== claims
Zero == [n |-> 0, d |-> 1]
IsPrefix(s, t) == Len(s) <= Len(t) /\ SubSeq(t, 1, Len(s)) = s
NonAbstaining(L, k, r) == Cardinality({i \in 1 .. k : L[i][r] # 0})

\* ---- the loop (Spec)

\* C1: every step of run_synthesizer, run_verifier, find_feedback and evaluate
\* leaves the cumulative heuristic list at least as long as it was, with every
\* earlier heuristic (and its feature combination) still at its position, and
\* the feature-combination list as long as the heuristic list.
C1_KeptListOnlyGrows ==
  [][/\ Len(hf') >= Len(hf)
     /\ IsPrefix(hf, hf')
     /\ IsPrefix(feat_combos, feat_combos')
     /\ Len(feat_combos') = Len(hf')]_vars

\* a second round appended to the list the aggregator was built over, and
\* find_feedback and evaluate have run
C1_Witness ==
  /\ vf # None
  /\ Len(vf.L_val) = 1
  /\ Len(hf) = 2
  /\ feedback_idx # None
  /\ val_accuracy # None

\* C2: once run_synthesizer has completed, the validation and the train vote
\* matrix have one column per kept heuristic (each with one entry per row of
\* its split), and so has the beta vector they were computed with.
C2_VoteMatrixShape ==
  L_val # None =>
    /\ Len(L_val.cols) = Len(hf)
    /\ Len(L_train.cols) = Len(hf)
    /\ Len(beta_opt.beta) = Len(hf)
    /\ \A i \in 1 .. Len(hf) :
         Len(L_val.cols[i]) = NVal /\ Len(L_train.cols[i]) = NTrain

\* one heuristic kept: one vote column, a beta vector of length one
C2_Witness ==
  /\ L_val # None
  /\ Len(hf) = 1
  /\ Len(L_val.cols) = 1
  /\ Len(beta_opt.beta) = 1

\* C7 (as claimed): after evaluate, both accuracies and both coverages lie in
\* [0,1], and a split none of whose marginals is exactly 0.5 has coverage 1.
FullCoverage(marginals, coverage) ==
  (\A r \in 1 .. Len(marginals) : marginals[r] # Half) => FracEq(coverage, [n |-> 1, d |-> 1])
C7_EvaluateInUnitInterval ==
  val_accuracy # None =>
    /\ InUnit(val_accuracy) /\ InUnit(train_accuracy)
    /\ InUnit(val_coverage) /\ InUnit(train_coverage)
    /\ FullCoverage(val_marginals.m, val_coverage)
    /\ FullCoverage(train_marginals.m, train_coverage)

\* C9 (as claimed): whenever an aggregator exists, the per-point totals that
\* prune_heuristics reads in a run_synthesizer call made now count the
\* non-abstaining votes of every heuristic of the cumulative list.
C9_TotalsCoverAllKept ==
  vf # None =>
    \A r \in 1 .. NVal :
      val_num_labeled_of(vf)[r] = NonAbstaining(L_val.cols, Len(hf), r)

\* C9 (amended): the totals count the non-abstaining votes of the heuristics
\* the list held when run_verifier last ran, which are the first k of the
\* current list for some k.
C9_TotalsCoverKeptAtLastVerifier ==
  vf # None =>
    \E k \in 0 .. Len(hf) :
      /\ vf.L_val = SubSeq(L_val.cols, 1, k)
      /\ \A r \in 1 .. NVal :
           val_num_labeled_of(vf)[r] = NonAbstaining(L_val.cols, k, r)

\* a heuristic kept after the last run_verifier votes on a point and is
\* missing from the totals
C9_Witness ==
  /\ vf # None
  /\ Len(vf.L_val) < Len(hf)
  /\ \E r \in 1 .. NVal :
       val_num_labeled_of(vf)[r] < NonAbstaining(L_val.cols, Len(hf), r)

\* ---- apply_heuristics (SpecApply)
Applied == call # None /\ call.op = "apply_heuristics" /\ "cols" \in DOMAIN ret
ProbaAt(i, r) == call.heuristics[i].proba[call.X.rows[r]]
Entries == {<<i, r>> : i \in 1 .. Len(call.heuristics), r \in 1 .. Len(call.X.rows)}

\* C3 (as claimed): for every beta[i] in [0, 0.5] the vote is -1 if
\* p <= b - beta[i], +1 if p >= b + beta[i], and 0 otherwise.
C3_VoteRuleExclusive ==
  Applied =>
    \A e \in Entries :
      LET p == ProbaAt(e[1], e[2])
          be == call.beta_opt[e[1]]
          v == ret.cols[e[1]][e[2]]
      IN  be \in BetaGrid =>
            /\ p <= b - be => v = -1
            /\ p >= b + be => v = 1
            /\ ~(p <= b - be) /\ ~(p >= b + be) => v = 0

\* C3 (amended): the vote is +1 if p >= b + beta[i], otherwise -1 if
\* p <= b - beta[i], otherwise 0.
C3_VoteRule ==
  Applied =>
    \A e \in Entries :
      LET p == ProbaAt(e[1], e[2])
          be == call.beta_opt[e[1]]
          v == ret.cols[e[1]][e[2]]
      IN  be \in BetaGrid =>
            v = (IF p >= b + be THEN 1 ELSE IF p <= b - be THEN -1 ELSE 0)

\* beta[i] = 0 and p = b: both comparisons hold and the vote is +1
C3_Witness ==
  /\ Applied
  /\ \E e \in Entries :
       /\ call.beta_opt[e[1]] = 0
       /\ ProbaAt(e[1], e[2]) = b
       /\ ret.cols[e[1]][e[2]] = 1

\* C4 (as claimed): with beta = 0.5 and b = 0.5 no probability abstains.
C4_NeverAbstains ==
  Applied /\ b = Half =>
    \A e \in Entries :
      call.beta_opt[e[1]] = Half => ret.cols[e[1]][e[2]] # 0

\* C4 (amended): with beta = 0.5 and b = 0.5 the vote is -1 exactly for p = 0,
\* +1 exactly for p = 1, and 0 for every p strictly between.
C4_OnlyExtremesVote ==
  Applied /\ b = Half =>
    \A e \in Entries :
      LET p == ProbaAt(e[1], e[2])
          v == ret.cols[e[1]][e[2]]
      IN  call.beta_opt[e[1]] = Half =>
            /\ v = -1 <=> p = 0
            /\ v = 1 <=> p = Scale
            /\ v = 0 <=> (0 < p /\ p < Scale)

\* beta = 0.5, b = 0.5 and a probability strictly inside (0, 1): an abstention
C4_Witness ==
  /\ Applied
  /\ b = Half
  /\ \E e \in Entries :
       /\ call.beta_opt[e[1]] = Half
       /\ 0 < ProbaAt(e[1], e[2]) /\ ProbaAt(e[1], e[2]) < Scale
       /\ ret.cols[e[1]][e[2]] = 0

\* C8 (as claimed): a beta outside [0, 0.5], or a beta vector or matrix whose
\* size is not the number of heuristics, ends the call in an error, with no
\* vote matrix.
InvalidConfiguration ==
  \/ \E i \in 1 .. Len(call.beta_opt) : call.beta_opt[i] \notin BetaGrid
  \/ Len(call.beta_opt) # Len(call.heuristics)
  \/ Len(call.X.cols) # Len(call.heuristics)
C8_FailsFast ==
  (call # None /\ call.op = "apply_heuristics" /\ InvalidConfiguration) =>
    "error" \in DOMAIN ret

\* ---- prune_heuristics (SpecPrune)
Pruned == call # None /\ call.op = "prune_heuristics"
CallScores ==
  prune_scores(call.heuristics, call.feat_combos, vf, val_primitive_matrix, val_ground, b)
Positions == 1 .. Len(ret.sort_idx)
Unselected == (1 .. Len(call.heuristics)) \ {ret.sort_idx[i] : i \in Positions}

\* C5: prune_heuristics returns at most keep indices, exactly keep when the
\* pool has at least keep candidates, and the indices are pairwise distinct
\* positions of the pool.
C5_AtMostKeep ==
  Pruned =>
    /\ Len(ret.sort_idx) <= call.keep
    /\ Len(call.heuristics) >= call.keep => Len(ret.sort_idx) = call.keep
    /\ \A i \in Positions : ret.sort_idx[i] \in 1 .. Len(call.heuristics)
    /\ \A i, j \in Positions : i # j => ret.sort_idx[i] # ret.sort_idx[j]

\* keep = 1 over a pool of two: one index comes back
C5_Witness ==
  /\ Pruned
  /\ call.keep = 1
  /\ Len(call.heuristics) = 2
  /\ Len(ret.sort_idx) = 1

\* the returned order is descending by combined score, and no candidate left
\* out scores above a selected one (nan ranks as numpy ranks it, above all)
DescendingTopKeep(sc) ==
  /\ \A i, j \in Positions : i < j => ScoreLeq(sc[ret.sort_idx[j]], sc[ret.sort_idx[i]])
  /\ \A i \in Positions : \A c \in Unselected : ScoreLeq(sc[c], sc[ret.sort_idx[i]])

\* C6 (as claimed): the keep candidates with the highest combined score, in
\* descending order, equal scores in generation order (lower index first), in
\* the ranking and in the selection.
C6_TiesInGenerationOrder ==
  Pruned =>
    LET sc == CallScores.combined_scores
    IN  /\ DescendingTopKeep(sc)
        /\ \A i, j \in Positions :
             i < j /\ FracEq(sc[ret.sort_idx[i]], sc[ret.sort_idx[j]])
               => ret.sort_idx[i] < ret.sort_idx[j]
        /\ \A i \in Positions : \A c \in Unselected :
             FracEq(sc[c], sc[ret.sort_idx[i]]) => ret.sort_idx[i] < c

\* C6 (amended): the keep candidates with the highest combined score, in
\* descending order; in the first round that is descending reliability.
\* Nothing is promised about the order of equal scores.
C6_DescendingScore ==
  Pruned =>
    /\ DescendingTopKeep(CallScores.combined_scores)
    /\ vf = None =>
         \A i, j \in Positions :
           i < j => FracLeq(CallScores.acc_cov_scores[ret.sort_idx[j]],
                            CallScores.acc_cov_scores[ret.sort_idx[i]])

\* two candidates with equal combined score, the later one ranked first
C6_Witness ==
  /\ Pruned
  /\ Len(ret.sort_idx) = 2
  /\ ret.sort_idx[1] > ret.sort_idx[2]
  /\ FracEq(CallScores.combined_scores[ret.sort_idx[1]],
            CallScores.combined_scores[ret.sort_idx[2]])

\* what line 61 sums for candidate i
CandAbs(i, r) == Abs(CallScores.L[i][r])
SumMin(i) == SumSeq([r \in 1 .. NVal |-> Min(CandAbs(i, r), val_num_labeled_of(vf)[r])])
SumMax(i) == SumSeq([r \in 1 .. NVal |-> Max(CandAbs(i, r), val_num_labeled_of(vf)[r])])
\* the candidate labels exactly the points some kept heuristic labels
SamePattern(i) ==
  \A r \in 1 .. NVal : (CandAbs(i, r) # 0) <=> (val_num_labeled_of(vf)[r] # 0)
SameTotals(i) ==
  \A r \in 1 .. NVal : CandAbs(i, r) = val_num_labeled_of(vf)[r]

\* C10 (as claimed): with an aggregator, every candidate's diversity score is
\* 1 - sum(min)/sum(max), lies in [0,1], and is 0 for a candidate whose
\* abstain pattern is that of the kept heuristics' votes.
C10_DiversityOfSamePatternIsZero ==
  Pruned /\ vf # None =>
    \A i \in 1 .. Len(call.heuristics) :
      LET jac == CallScores.jaccard_scores[i]
      IN  /\ InUnit(jac)
          /\ jac.n * SumMax(i) = (SumMax(i) - SumMin(i)) * jac.d
          /\ SamePattern(i) => FracEq(jac, Zero)

\* C10 (amended): the score is 1 - sum(min)/sum(max) and lies in [0,1] when
\* sum(max) > 0, and is nan when sum(max) = 0; it is 0 exactly when sum(max) > 0
\* and the candidate's absolute votes equal the existing totals at every point.
C10_Diversity ==
  Pruned /\ vf # None =>
    \A i \in 1 .. Len(call.heuristics) :
      LET jac == CallScores.jaccard_scores[i]
      IN  /\ SumMax(i) = 0 => IsNaN(jac)
          /\ SumMax(i) > 0 =>
               /\ InUnit(jac)
               /\ jac.n * SumMax(i) = (SumMax(i) - SumMin(i)) * jac.d
          /\ FracEq(jac, Zero) <=> (SumMax(i) > 0 /\ SameTotals(i))

\* two kept heuristics label a point, so does the candidate: same pattern,
\* diversity above 0
C10_Witness ==
  /\ Pruned
  /\ vf # None
  /\ \E i \in 1 .. Len(call.heuristics) :
       /\ SamePattern(i)
       /\ SumMax(i) > 0
       /\ ~FracEq(CallScores.jaccard_scores[i], Zero)

====
